---- MODULE Spec2Model ----
(***************************************************************************)
(* Model of bevy-hex-grid (src/src/main.rs): the HexGridPlugin, its        *)
(* pipeline resource, the hex_grid view node and the camera input system.  *)
(*                                                                         *)
(* Two specifications share the variables:                                 *)
(*   Spec       the render side: plugin build/finish, then frames in which *)
(*              the core 3d graph is run once per view;                    *)
(*   SpecInput  the main-world side: setup, then frames in which the       *)
(*              action state is updated and handle_input runs.             *)
(*                                                                         *)
(* Engine calls (pipeline cache, render graph runner, view target, uniform *)
(* buffer, action state) are modelled by what bevy 0.11, bevy_dolly and    *)
(* leafwing-input-manager do at the call sites named in the comments.      *)
(* Matrices are 1-D affine maps x |-> a*x + b with a in {1,-1}, written    *)
(* <<a, b>>; angles are whole degrees (f32 rounding is not modelled).      *)
(***************************************************************************)
EXTENDS Integers, Sequences, FiniteSets, TLC

VARIABLES
    phase,            \* plugin lifecycle: "new", "built", "finished", "crashed"
    render_graph,     \* the core 3d graph: [nodes, edges]
    hexGridPipeline,  \* the HexGridPipeline resource (an Option)
    pipelineCache,    \* PipelineCache: sequence of [descriptor, state]
    layoutCount,      \* bind group layouts created by the RenderDevice
    fromWorldCalls,   \* invocations of HexGridPipeline::from_world
    msaa,             \* the Msaa resource (sample count)
    views,            \* the ExtractedView of each view, this frame
    targets,          \* contents of each view's colour / depth texture
    stage,            \* frame stage: "idle", "extracted", "rendering"
    viewIdx,          \* the view whose graph is being run (0: none)
    nodesRun,         \* graph nodes already run for viewIdx
    lastRun,          \* record of the latest HexGridRenderNode::run
    camera,           \* the MainCamera entity (an Option): rig, projection
    prevCamera,       \* the camera before the latest handle_input
    actions,          \* ActionState<InputActions> of the camera
    inputStage        \* main-world schedule: "startup", "preupdate", "update"

renderVars == <<phase, render_graph, hexGridPipeline, pipelineCache, layoutCount,
                fromWorldCalls, msaa, views, targets, stage, viewIdx, nodesRun,
                lastRun>>
inputVars == <<camera, prevCamera, actions, inputStage>>
vars == <<phase, render_graph, hexGridPipeline, pipelineCache, layoutCount,
          fromWorldCalls, msaa, views, targets, stage, viewIdx, nodesRun,
          lastRun, camera, prevCamera, actions, inputStage>>

(***************************************************************************)
(* Bounds and value sets                                                   *)
(***************************************************************************)
NumViews == 2
Views == 1..NumViews

None == [some |-> FALSE]
Some(x) == [some |-> TRUE, value |-> x]

\* UVec4 viewports (x, y, width, height)
Viewports == {<<0, 0, 1, 1>>, <<0, 0, 2, 1>>}
\* Mat4 values used as projections
Projections == {<<1, 0>>, <<-1, 1>>}
\* GlobalTransform values (an affine map: linear part and translation)
Transforms == {[matrix3 |-> 1, translation |-> 0], [matrix3 |-> -1, translation |-> 1]}
ExtractedViews == [viewport : Viewports, projection : Projections, transform : Transforms]
\* sample counts of the Msaa resource: Off, Sample2, Sample4, Sample8
MsaaSamples == {1, 2, 4, 8}

(***************************************************************************)
(* Matrix helpers                                                          *)
(***************************************************************************)
\* Mat4::inverse, for x |-> a*x + b with a*a = 1: x |-> a*x - a*b
inverse(m) == <<m[1], -(m[1] * m[2])>>
\* GlobalTransform::compute_matrix: the affine map as a Mat4
compute_matrix(t) == <<t.matrix3, t.translation>>
\* GlobalTransform::translation
translation(t) == t.translation

(***************************************************************************)
(* Render graph (bevy RenderGraphApp), as configured by HexGridPlugin      *)
(***************************************************************************)
\* HexGridRenderNode::NAME
NAME == "hex_grid"

\* The core 3d graph the engine hands to the plugin: the main pass chain and
\* the post-processing nodes between TONEMAPPING and UPSCALING.
Core3dGraph ==
    [nodes |-> {"MAIN_OPAQUE_PASS", "END_MAIN_PASS", "TONEMAPPING", "FXAA",
                "END_MAIN_PASS_POST_PROCESSING", "UPSCALING"},
     edges |-> {<<"MAIN_OPAQUE_PASS", "END_MAIN_PASS">>,
                <<"END_MAIN_PASS", "TONEMAPPING">>,
                <<"TONEMAPPING", "FXAA">>,
                <<"FXAA", "END_MAIN_PASS_POST_PROCESSING">>,
                <<"TONEMAPPING", "END_MAIN_PASS_POST_PROCESSING">>,
                <<"END_MAIN_PASS_POST_PROCESSING", "UPSCALING">>}]

add_render_graph_node(graph, name) ==
    [graph EXCEPT !.nodes = @ \cup {name}]

\* an edge between each pair of consecutive nodes of the list
add_render_graph_edges(graph, list) ==
    [graph EXCEPT !.edges = @ \cup {<<list[i], list[i + 1]>> : i \in 1..(Len(list) - 1)}]

HexGridEdgesSwapped == <<"TONEMAPPING", "END_MAIN_PASS_POST_PROCESSING", NAME>>
\* the edge list HexGridPlugin::build passes to add_render_graph_edges
HexGridEdges == <<"TONEMAPPING", NAME, "END_MAIN_PASS_POST_PROCESSING">>

\* HexGridPlugin::build
build(graph) ==
    add_render_graph_edges(add_render_graph_node(graph, NAME), HexGridEdges)

(***************************************************************************)
(* HexGridPipeline::from_world                                             *)
(***************************************************************************)
\* RenderDevice::create_bind_group_layout with the descriptor of from_world;
\* `created` is the number of layouts the device has created so far
create_bind_group_layout(created) ==
    [id |-> created + 1,
     label |-> "hex_grid_bind_group_layout",
     entries |-> <<[binding |-> 0, visibility |-> "VERTEX_FRAGMENT",
                    ty |-> "Uniform", has_dynamic_offset |-> FALSE]>>]

TriangleListPrimitiveState ==
    [topology |-> "TriangleList", front_face |-> "Ccw", cull_mode |-> "Back",
     polygon_mode |-> "Fill"]
\* the PrimitiveState of the descriptor
HexGridPrimitiveState ==
    [topology |-> "TriangleStrip", front_face |-> "Ccw", cull_mode |-> "None",
     polygon_mode |-> "Fill"]

\* MultisampleState.count of the descriptor
MultisampleCount == 4

\* the RenderPipelineDescriptor handed to queue_render_pipeline
HexGridPipelineDescriptor(layout) ==
    [label |-> "hex_grid_pipeline",
     layout |-> <<layout>>,
     vertex |-> [shader |-> "hex_grid.wgsl", entry_point |-> "vertex", buffers |-> <<>>],
     primitive |-> HexGridPrimitiveState,
     depth_stencil |-> [format |-> "Depth32Float", depth_write_enabled |-> TRUE,
                        depth_compare |-> "Greater"],
     multisample |-> [count |-> MultisampleCount, alpha_to_coverage_enabled |-> FALSE],
     fragment |-> [shader |-> "hex_grid.wgsl", entry_point |-> "fragment",
                   targets |-> <<[format |-> "bevy_default", blend |-> "ALPHA_BLENDING",
                                  write_mask |-> "ALL"]>>]]

\* PipelineCache::queue_render_pipeline: the descriptor is stored Queued and
\* its index is the id (ids count from 1 here, from 0 in the engine)
queue_render_pipeline(cache, descriptor) ==
    [cache |-> Append(cache, [descriptor |-> descriptor, state |-> "Queued"]),
     id |-> Len(cache) + 1]

from_world_requeue(cache, created) ==
    LET layout == create_bind_group_layout(created)
        first == queue_render_pipeline(cache, HexGridPipelineDescriptor(layout))
        queued == queue_render_pipeline(first.cache, HexGridPipelineDescriptor(layout))
    IN [self |-> [pipeline_id |-> queued.id, layout |-> layout],
        PipelineCache |-> queued.cache,
        created |-> created + 1]
\* HexGridPipeline::from_world: Self, and the world's cache and device after it
from_world(cache, created) ==
    LET layout == create_bind_group_layout(created)
        queued == queue_render_pipeline(cache, HexGridPipelineDescriptor(layout))
    IN [self |-> [pipeline_id |-> queued.id, layout |-> layout],
        PipelineCache |-> queued.cache,
        created |-> created + 1]

(***************************************************************************)
(* View target, uniform buffer, pipeline cache lookups used by run         *)
(***************************************************************************)
\* the ViewTarget of view v: the main texture and, when Msaa is on, the
\* multisampled texture resolved into it
ViewTargetOf(v, samples) ==
    [main_texture |-> [view |-> v, kind |-> "main", sample_count |-> 1],
     sampled |-> IF samples > 1
                 THEN Some([view |-> v, kind |-> "sampled", sample_count |-> samples])
                 ELSE None]

\* the ViewDepthTexture of view v (created with the Msaa sample count)
ViewDepthTextureOf(v, samples) ==
    [view |-> [view |-> v, kind |-> "depth", sample_count |-> samples]]

\* ViewTarget::get_color_attachment: the sampled texture resolving into the
\* main texture when the target is multisampled, else the main texture
get_color_attachment(view_target, ops) ==
    IF view_target.sampled.some
    THEN [view |-> view_target.sampled.value,
          resolve_target |-> Some(view_target.main_texture), ops |-> ops]
    ELSE [view |-> view_target.main_texture, resolve_target |-> None, ops |-> ops]

\* PipelineCache::get_render_pipeline: the pipeline when its state is Ok
get_render_pipeline(cache, id) ==
    IF id \in 1..Len(cache) /\ cache[id].state = "Ok"
    THEN Some([id |-> id, descriptor |-> cache[id].descriptor])
    ELSE None

\* UniformBuffer::default
UniformBufferDefault == [value |-> None, buffer |-> None, changed |-> FALSE]
\* UniformBuffer::set
set(buffer, value) == [buffer EXCEPT !.value = Some(value)]
\* UniformBuffer::write_buffer: allocates the GPU buffer when there is none
\* (or the buffer changed) and uploads the value
write_buffer(buffer) ==
    [buffer EXCEPT !.buffer = Some(buffer.value.value), !.changed = FALSE]
\* UniformBuffer::binding: the whole GPU buffer, when there is one
binding(buffer) ==
    IF buffer.buffer.some THEN Some([buffer |-> buffer.buffer.value]) ELSE None

(***************************************************************************)
(* HexGridRenderNode::run                                                  *)
(***************************************************************************)
\* one recorded call on the render device or on the tracked render pass
Cmd(op, arg) == [op |-> op, arg |-> arg]

StaleViewUniform(view) ==
    [viewport |-> <<0, 0, 1, 1>>,
     projection |-> <<1, 0>>,
     inverse_projection |-> inverse(<<1, 0>>),
     view |-> <<1, 0>>,
     inverse_view |-> inverse(<<1, 0>>),
     position |-> 0]
\* the ViewUniform run builds from the ExtractedView it is given
ViewUniformOf(view) ==
    LET view_matrix == compute_matrix(view.transform)
    IN [viewport |-> view.viewport,
        projection |-> view.projection,
        inverse_projection |-> inverse(view.projection),
        view |-> view_matrix,
        inverse_view |-> inverse(view_matrix),
        position |-> translation(view.transform)]

ClearOps == [load |-> "Clear", store |-> TRUE]
\* Operations of the colour attachment
ColorOps == [load |-> "Load", store |-> TRUE]
\* Operations (depth_ops) of the depth attachment
DepthOps == [load |-> "Load", store |-> TRUE]

\* the RenderPassDescriptor of hex_grid_pass
HexGridPassDescriptor(view_target, depth) ==
    [label |-> "hex_grid_pass",
     color_attachments |-> <<get_color_attachment(view_target, ColorOps)>>,
     depth_stencil_attachment |-> [view |-> depth.view, depth_ops |-> DepthOps,
                                   stencil_ops |-> None]]

\* the BindGroupDescriptor of hex_grid_bind_group
HexGridBindGroup(layout, view_binding) ==
    [label |-> "hex_grid_bind_group",
     layout |-> layout,
     entries |-> <<[binding |-> 0, resource |-> view_binding]>>]

PassCommandsDrawFirst(pass, pipeline, bind_group) ==
    <<Cmd("begin_render_pass", pass),
      Cmd("draw", [vertices |-> <<0, 4>>, instances |-> <<0, 1>>]),
      Cmd("set_render_pipeline", pipeline),
      Cmd("set_bind_group", [index |-> 0, bind_group |-> bind_group]),
      Cmd("draw", [vertices |-> <<0, 4>>, instances |-> <<0, 1>>])>>
\* the calls run makes from begin_tracked_render_pass on; a range a..b is <<a, b>>
PassCommands(pass, pipeline, bind_group) ==
    <<Cmd("begin_render_pass", pass),
      Cmd("set_render_pipeline", pipeline),
      Cmd("set_bind_group", [index |-> 0, bind_group |-> bind_group]),
      Cmd("draw", [vertices |-> <<0, 4>>, instances |-> <<0, 1>>])>>

\* wgpu's validation of the recorded pass when it ends: the pipeline's sample
\* count must be that of the attachments (an uncaptured error aborts)
PassValid(pass, pipeline) ==
    /\ pass.color_attachments[1].view.sample_count = pipeline.descriptor.multisample.count
    /\ pass.depth_stencil_attachment.view.sample_count = pipeline.descriptor.multisample.count

Outcome(result, commands, read, bound) ==
    [result |-> result, commands |-> commands, read |-> read, bound |-> bound]

run_skip_frame(view, view_target, depth, world) ==
    Outcome("Ok", <<>>, Some(world.HexGridPipeline), None)
\* HexGridRenderNode::run: its result ("Ok", "Err" or "Panic"), the calls it
\* recorded, the resource it read and the uniform bound for the draw
run(view, view_target, depth, world) ==
    LET hex_grid_pipeline == world.HexGridPipeline
        pipeline == get_render_pipeline(world.PipelineCache, hex_grid_pipeline.pipeline_id)
    IN IF ~pipeline.some
       THEN Outcome("Panic", <<>>, Some(hex_grid_pipeline), None)
       ELSE
       LET buffer == write_buffer(set(UniformBufferDefault, ViewUniformOf(view)))
           view_binding == binding(buffer)
           written == <<Cmd("write_buffer", buffer.value.value)>>
       IN IF ~view_binding.some
          THEN Outcome("Panic", written, Some(hex_grid_pipeline), None)
          ELSE
          LET bind_group == HexGridBindGroup(hex_grid_pipeline.layout, view_binding.value)
              pass == HexGridPassDescriptor(view_target, depth)
              commands == written \o <<Cmd("create_bind_group", bind_group)>>
                          \o PassCommands(pass, pipeline.value, bind_group)
          IN Outcome(IF PassValid(pass, pipeline.value) THEN "Ok" ELSE "Panic",
                     commands, Some(hex_grid_pipeline), Some(view_binding.value.buffer))

(***************************************************************************)
(* What a recorded pass does to the textures of its view                   *)
(***************************************************************************)
\* A texture's contents are the layers drawn onto it since it was cleared.
ApplyCommand(t, c) ==
    CASE c.op = "begin_render_pass" ->
           [color |-> IF c.arg.color_attachments[1].ops.load = "Load" THEN t.color ELSE <<>>,
            depth |-> IF c.arg.depth_stencil_attachment.depth_ops.load = "Load"
                      THEN t.depth ELSE <<>>]
      [] c.op = "draw" ->
           [color |-> Append(t.color, NAME), depth |-> Append(t.depth, NAME)]
      [] OTHER -> t

RECURSIVE ExecuteCommands(_, _)
ExecuteCommands(t, commands) ==
    IF commands = <<>> THEN t
    ELSE ExecuteCommands(ApplyCommand(t, Head(commands)), Tail(commands))

\* the textures after the pass ended: an attachment that is not stored is lost
ExecutePass(t, commands) ==
    LET r == ExecuteCommands(t, commands)
        begun == {i \in DOMAIN commands : commands[i].op = "begin_render_pass"}
    IN IF begun = {} THEN r
       ELSE LET pass == commands[CHOOSE i \in begun : TRUE].arg
            IN [color |-> IF pass.color_attachments[1].ops.store THEN r.color ELSE <<>>,
                depth |-> IF pass.depth_stencil_attachment.depth_ops.store
                          THEN r.depth ELSE <<>>]

\* the main pass of the camera clears the view's textures and draws the scene
MainPassContents == [color |-> <<"scene">>, depth |-> <<"scene">>]
EmptyContents == [color |-> <<>>, depth |-> <<>>]

(***************************************************************************)
(* Render side: state machine                                              *)
(***************************************************************************)
NoRun == [invoked |-> FALSE]

\* main leaves the Msaa resource to the app's configuration (the engine default
\* is Sample4); the pass is written for whatever Msaa is set to, so every
\* setting is an initial state.

InitRender ==
    /\ phase = "new"
    /\ render_graph = Core3dGraph
    /\ hexGridPipeline = None
    /\ pipelineCache = <<>>
    /\ layoutCount = 0
    /\ fromWorldCalls = 0
    /\ msaa \in MsaaSamples
    /\ views = [v \in Views |-> CHOOSE e \in ExtractedViews : TRUE]
    /\ targets = [v \in Views |-> EmptyContents]
    /\ stage = "idle"
    /\ viewIdx = 0
    /\ nodesRun = {}
    /\ lastRun = NoRun

\* HexGridPlugin::build, called once by App when the plugin is added
Build ==
    /\ phase = "new"
    /\ phase' = "built"
    /\ render_graph' = build(render_graph)
    /\ UNCHANGED <<hexGridPipeline, pipelineCache, layoutCount, fromWorldCalls, msaa,
                   views, targets, stage, viewIdx, nodesRun, lastRun, inputVars>>

\* HexGridPlugin::finish: init_resource::<HexGridPipeline>() builds the
\* resource with from_world unless the world already holds one
Finish ==
    /\ phase = "built"
    /\ phase' = "finished"
    /\ IF hexGridPipeline.some
       THEN UNCHANGED <<hexGridPipeline, pipelineCache, layoutCount, fromWorldCalls>>
       ELSE LET made == from_world(pipelineCache, layoutCount)
            IN /\ hexGridPipeline' = Some(made.self)
               /\ pipelineCache' = made.PipelineCache
               /\ layoutCount' = made.created
               /\ fromWorldCalls' = fromWorldCalls + 1
    /\ UNCHANGED <<render_graph, msaa, views, targets, stage, viewIdx, nodesRun, lastRun, inputVars>>

\* the extract schedule: every view gets this frame's ExtractedView
Extract ==
    /\ phase = "finished" /\ stage = "idle"
    /\ views' \in [Views -> ExtractedViews]
    /\ stage' = "extracted"
    /\ UNCHANGED <<phase, render_graph, hexGridPipeline, pipelineCache, layoutCount,
                   fromWorldCalls, msaa, targets, viewIdx, nodesRun, lastRun, inputVars>>

\* PipelineCache::process_queue, before the graph runs: a pipeline that is
\* not Ok is compiled, or fails (its shader asset is not loaded yet)
ProcessQueue ==
    /\ phase = "finished" /\ stage = "extracted"
    /\ \E outcome \in {"Ok", "Err"} :
         pipelineCache' = [i \in 1..Len(pipelineCache) |->
                             IF pipelineCache[i].state = "Ok" THEN pipelineCache[i]
                             ELSE [pipelineCache[i] EXCEPT !.state = outcome]]
    /\ stage' = "rendering"
    /\ viewIdx' = 1
    /\ nodesRun' = {}
    /\ UNCHANGED <<phase, render_graph, hexGridPipeline, layoutCount, fromWorldCalls,
                   msaa, views, targets, lastRun, inputVars>>

\* hot reloading (ChangeWatcher): hex_grid.wgsl changed, the cache queues the
\* pipelines that use it again, under the same ids
ShaderChanged ==
    /\ phase = "finished" /\ stage = "idle"
    /\ \E i \in 1..Len(pipelineCache) : pipelineCache[i].state = "Ok"
    /\ pipelineCache' = [i \in 1..Len(pipelineCache) |->
                           [pipelineCache[i] EXCEPT !.state = "Queued"]]
    /\ UNCHANGED <<phase, render_graph, hexGridPipeline, layoutCount, fromWorldCalls,
                   msaa, views, targets, stage, viewIdx, nodesRun, lastRun, inputVars>>

\* the graph runner runs a node once all nodes with an edge to it have run
Runnable(n) ==
    /\ phase = "finished" /\ stage = "rendering"
    /\ n \in render_graph.nodes \ nodesRun
    /\ \A e \in render_graph.edges : e[2] = n => e[1] \in nodesRun

World == [HexGridPipeline |-> hexGridPipeline.value, PipelineCache |-> pipelineCache]

\* ViewNodeRunner<HexGridRenderNode> runs the node for the current view
RunHexGrid ==
    /\ Runnable(NAME)
    /\ LET out == run(views[viewIdx], ViewTargetOf(viewIdx, msaa),
                      ViewDepthTextureOf(viewIdx, msaa), World)
           after == IF out.result = "Ok"
                    THEN ExecutePass(targets[viewIdx], out.commands)
                    ELSE targets[viewIdx]
           ready == get_render_pipeline(pipelineCache, hexGridPipeline.value.pipeline_id).some
       IN /\ lastRun' = [invoked |-> TRUE, view |-> viewIdx, ready |-> ready,
                         result |-> out.result,
                         commands |-> out.commands, read |-> out.read,
                         bound |-> out.bound, before |-> targets[viewIdx],
                         after |-> after]
          /\ targets' = [targets EXCEPT ![viewIdx] = after]
          /\ phase' = IF out.result = "Panic" THEN "crashed" ELSE phase
    /\ nodesRun' = nodesRun \cup {NAME}
    /\ UNCHANGED <<render_graph, hexGridPipeline, pipelineCache, layoutCount,
                   fromWorldCalls, msaa, views, stage, viewIdx, inputVars>>

\* the camera's main pass
RunMainPass ==
    /\ Runnable("MAIN_OPAQUE_PASS")
    /\ targets' = [targets EXCEPT ![viewIdx] = MainPassContents]
    /\ nodesRun' = nodesRun \cup {"MAIN_OPAQUE_PASS"}
    /\ UNCHANGED <<phase, render_graph, hexGridPipeline, pipelineCache, layoutCount,
                   fromWorldCalls, msaa, views, stage, viewIdx, lastRun, inputVars>>

\* any other node of the graph
RunOtherNode ==
    /\ \E n \in render_graph.nodes \ {NAME, "MAIN_OPAQUE_PASS"} :
         /\ Runnable(n)
         /\ nodesRun' = nodesRun \cup {n}
    /\ UNCHANGED <<phase, render_graph, hexGridPipeline, pipelineCache, layoutCount,
                   fromWorldCalls, msaa, views, targets, stage, viewIdx, lastRun, inputVars>>

\* the camera driver goes on to the next view, or the frame ends
EndView ==
    /\ phase = "finished" /\ stage = "rendering"
    /\ nodesRun = render_graph.nodes
    /\ nodesRun' = {}
    /\ IF viewIdx < NumViews
       THEN viewIdx' = viewIdx + 1 /\ stage' = stage
       ELSE viewIdx' = 0 /\ stage' = "idle"
    /\ UNCHANGED <<phase, render_graph, hexGridPipeline, pipelineCache, layoutCount,
                   fromWorldCalls, msaa, views, targets, lastRun, inputVars>>

Next ==
    \/ Build
    \/ Finish
    \/ Extract
    \/ ProcessQueue
    \/ ShaderChanged
    \/ RunMainPass
    \/ RunHexGrid
    \/ RunOtherNode
    \/ EndView

(***************************************************************************)
(* Main-world side: setup, the action state, handle_input                  *)
(***************************************************************************)
\* the button-like InputActions handle_input reads
Buttons == {"Click", "ResetCamera", "ZeroCamera"}
\* mouse motion of a frame (DualAxis::mouse_motion), in pixels
MouseMotions == {<<0, 0>>, <<120, 60>>, <<-120, -60>>}
\* mouse wheel of a frame (SingleAxis::mouse_wheel_y)
WheelValues == {0, 1}

\* ActionState::default: every action released, no axis data
ActionStateDefault ==
    [state |-> [b \in Buttons |-> "Released"], axis_pair |-> None, value |-> 0]

\* ActionState::pressed
pressed(a, action) == a.state[action] \in {"JustPressed", "Pressed"}
\* ActionState::just_pressed
just_pressed(a, action) == a.state[action] = "JustPressed"

\* the camera setup spawns: the rig's YawPitch driver and the projection
SetupCamera ==
    [rig |-> [yaw_degrees |-> 45, pitch_degrees |-> -30],
     projection |-> [scaling_mode |-> <<"WindowSize", 96>>, scale |-> 1]]

\* f32 %: the remainder has the sign of the dividend
Rem(a, n) == IF a >= 0 THEN a % n ELSE -((-a) % n)
clamp(x, lo, hi) == IF x < lo THEN lo ELSE IF x > hi THEN hi ELSE x

\* YawPitch::rotate_yaw_pitch (bevy_dolly)
rotate_yaw_pitch(yp, yaw_degrees, pitch_degrees) ==
    [yaw_degrees |-> Rem(yp.yaw_degrees + yaw_degrees, 720),
     pitch_degrees |-> clamp(yp.pitch_degrees + pitch_degrees, -90, 90)]

handle_input_no_reset(cam, a) ==
    LET yp1 == IF just_pressed(a, "ZeroCamera")
               THEN [yaw_degrees |-> 0, pitch_degrees |-> 0] ELSE cam.rig
        yp2 == IF pressed(a, "Click")
               THEN rotate_yaw_pitch(yp1, (-1 * a.axis_pair.value[1] * 15) \div 10,
                                     a.axis_pair.value[2])
               ELSE yp1
    IN [cam EXCEPT !.rig = yp2]
handle_input_always_rotates(cam, a) ==
    LET yp0 == IF just_pressed(a, "ResetCamera")
               THEN [yaw_degrees |-> 45, pitch_degrees |-> -30] ELSE cam.rig
        yp1 == IF just_pressed(a, "ZeroCamera")
               THEN [yaw_degrees |-> 0, pitch_degrees |-> 0] ELSE yp0
        yp2 == rotate_yaw_pitch(yp1, (-1 * a.axis_pair.value[1] * 15) \div 10,
                                a.axis_pair.value[2])
    IN [cam EXCEPT !.rig = yp2]
\* handle_input: the camera after the system ran with action state a
\* (-0.1 * x * 15.0 is exact for the even x used here)
handle_input(cam, a) ==
    LET yp0 == IF just_pressed(a, "ResetCamera")
               THEN [yaw_degrees |-> 45, pitch_degrees |-> -30] ELSE cam.rig
        yp1 == IF just_pressed(a, "ZeroCamera")
               THEN [yaw_degrees |-> 0, pitch_degrees |-> 0] ELSE yp0
        yp2 == IF pressed(a, "Click")
               THEN rotate_yaw_pitch(yp1, (-1 * a.axis_pair.value[1] * 15) \div 10,
                                     a.axis_pair.value[2])
               ELSE yp1
    IN [cam EXCEPT !.rig = yp2]

InitInput ==
    /\ camera = None
    /\ prevCamera = None
    /\ actions = ActionStateDefault
    /\ inputStage = "startup"

\* the Startup system setup spawns the camera with its rig and input bundle
Setup ==
    /\ inputStage = "startup"
    /\ camera' = Some(SetupCamera)
    /\ actions' = ActionStateDefault
    /\ inputStage' = "preupdate"
    /\ UNCHANGED <<prevCamera, renderVars>>

\* InputManagerPlugin in PreUpdate: tick, then press or release each action
\* from this frame's mouse and keyboard state
UpdateActionState ==
    /\ inputStage = "preupdate"
    /\ \E down \in [Buttons -> BOOLEAN], motion \in MouseMotions, wheel \in WheelValues :
         actions' = [state |-> [b \in Buttons |->
                                  IF down[b]
                                  THEN (IF pressed(actions, b) THEN "Pressed" ELSE "JustPressed")
                                  ELSE (IF pressed(actions, b) THEN "JustReleased" ELSE "Released")],
                     axis_pair |-> Some(motion),
                     value |-> wheel]
    /\ inputStage' = "update"
    /\ UNCHANGED <<camera, prevCamera, renderVars>>

\* the Update system handle_input; prevCamera keeps the camera it started from
HandleInput ==
    /\ inputStage = "update"
    /\ camera.some
    /\ (pressed(actions, "Click") => actions.axis_pair.some)
    /\ camera' = Some(handle_input(camera.value, actions))
    /\ prevCamera' = camera
    /\ inputStage' = "preupdate"
    /\ UNCHANGED <<actions, renderVars>>

NextInput ==
    \/ Setup
    \/ UpdateActionState
    \/ HandleInput

Init == InitRender /\ InitInput

Spec == Init /\ [][Next]_vars
SpecInput == Init /\ [][NextInput]_vars

(***************************************************************************)
(* Properties                                                              *)
(***************************************************************************)
\* positions of the recorded calls of the latest run with the given name
Calls(op) == {i \in DOMAIN lastRun.commands : lastRun.commands[i].op = op}
JustRan == lastRun.invoked /\ stage = "rendering" /\ NAME \in nodesRun

\* C1: a run that returns Ok recorded exactly one draw, of vertices 0..4 and
\* instances 0..1, after create_bind_group, begin_render_pass,
\* set_render_pipeline and set_bind_group at index 0, in this order.
C1_OneDrawInOrder ==
    (lastRun.invoked /\ lastRun.result = "Ok") =>
        LET c == lastRun.commands
        IN /\ Cardinality(Calls("draw")) = 1
           /\ \E g \in Calls("create_bind_group"), b \in Calls("begin_render_pass"),
                 p \in Calls("set_render_pipeline"), s \in Calls("set_bind_group"),
                 d \in Calls("draw") :
                   /\ g < b /\ b < p /\ p < s /\ s < d
                   /\ c[s].arg.index = 0
                   /\ c[d].arg.vertices = <<0, 4>>
                   /\ c[d].arg.instances = <<0, 1>>
C1_Witness == lastRun.invoked /\ lastRun.result = "Ok" /\ lastRun.view = NumViews

\* C2: a run in a frame where the cache has no ready pipeline for pipeline_id,
\* or where the uniform buffer has no binding, panics: it returns neither Ok
\* nor Err and records no render pass and no draw.
C2_MissingResourcePanics ==
    (lastRun.invoked /\ (~lastRun.ready \/ ~lastRun.bound.some)) =>
        /\ lastRun.result = "Panic"
        /\ Calls("begin_render_pass") = {}
        /\ Calls("draw") = {}
        /\ phase = "crashed"
C2_Witness ==
    /\ lastRun.invoked /\ ~lastRun.ready
    /\ \E i \in DOMAIN pipelineCache : pipelineCache[i].state = "Err"

\* C3: from_world ran exactly once, in finish and before any run, queued
\* exactly one pipeline, and every run reads the pipeline_id and layout that
\* invocation produced.
C3_PipelineBuiltOnce ==
    /\ phase \in {"new", "built"} =>
            fromWorldCalls = 0 /\ ~lastRun.invoked /\ pipelineCache = <<>>
    /\ phase \in {"finished", "crashed"} =>
            /\ fromWorldCalls = 1
            /\ Len(pipelineCache) = 1
            /\ layoutCount = 1
            /\ hexGridPipeline.some
            /\ hexGridPipeline.value.pipeline_id = 1
            /\ hexGridPipeline.value.layout.id = 1
            /\ pipelineCache[1].descriptor.layout = <<hexGridPipeline.value.layout>>
            /\ lastRun.invoked => lastRun.read = hexGridPipeline
C3_Witness ==
    /\ lastRun.invoked /\ lastRun.result = "Ok"
    /\ stage = "idle" /\ pipelineCache[1].state = "Queued"

\* C4: every queued descriptor has topology TriangleStrip, cull_mode None and
\* no vertex buffers, and the pass draws 4 vertices with no vertex buffer set.
C4_QuadWithoutVertexBuffer ==
    /\ \A i \in DOMAIN pipelineCache :
            /\ pipelineCache[i].descriptor.primitive.topology = "TriangleStrip"
            /\ pipelineCache[i].descriptor.primitive.cull_mode = "None"
            /\ pipelineCache[i].descriptor.vertex.buffers = <<>>
    /\ lastRun.invoked =>
            /\ Calls("set_vertex_buffer") = {}
            /\ \A d \in Calls("draw") : lastRun.commands[d].arg.vertices = <<0, 4>>
            /\ \A p \in Calls("set_render_pipeline") :
                   /\ lastRun.commands[p].arg.descriptor.primitive.topology = "TriangleStrip"
                   /\ lastRun.commands[p].arg.descriptor.vertex.buffers = <<>>
C4_Witness ==
    /\ lastRun.invoked /\ lastRun.result = "Ok"
    /\ Calls("draw") # {} /\ Calls("set_render_pipeline") # {}

\* C5: the uniform bound for the draw is built from the view of this
\* invocation, this frame, and written before the bind group is created.
C5_FreshUniform ==
    (JustRan /\ lastRun.bound.some) =>
        LET c == lastRun.commands
            view == views[viewIdx]
            u == lastRun.bound.value
        IN /\ lastRun.view = viewIdx
           /\ u.viewport = view.viewport
           /\ u.projection = view.projection
           /\ u.view = <<view.transform.matrix3, view.transform.translation>>
           /\ u.position = view.transform.translation
           /\ \E w \in Calls("write_buffer"), g \in Calls("create_bind_group") :
                   /\ w < g
                   /\ c[w].arg = u
                   /\ c[g].arg.entries[1].resource.buffer = u
           /\ \A s \in Calls("set_bind_group") :
                   c[s].arg.bind_group.entries[1].resource.buffer = u
C5_Witness ==
    /\ JustRan /\ lastRun.result = "Ok" /\ viewIdx = NumViews
    /\ views[viewIdx].viewport # views[1].viewport
    /\ views[viewIdx].projection # views[1].projection
    /\ views[viewIdx].transform # views[1].transform
    /\ targets[1].color = <<"scene", NAME>>

\* C6: the pass opens the colour and the depth attachment with Load and
\* store, so what the textures held before the pass is still there after it,
\* under what the draw wrote.
IsPrefix(a, b) == Len(a) <= Len(b) /\ SubSeq(b, 1, Len(a)) = a
C6_PassLoadsAttachments ==
    lastRun.invoked =>
        /\ \A b \in Calls("begin_render_pass") :
               LET pass == lastRun.commands[b].arg
               IN /\ pass.color_attachments[1].ops = [load |-> "Load", store |-> TRUE]
                  /\ pass.depth_stencil_attachment.depth_ops = [load |-> "Load", store |-> TRUE]
        /\ IsPrefix(lastRun.before.color, lastRun.after.color)
        /\ IsPrefix(lastRun.before.depth, lastRun.after.depth)
C6_Witness ==
    /\ lastRun.invoked /\ lastRun.result = "Ok"
    /\ lastRun.before.color = <<"scene">> /\ lastRun.after.color = <<"scene", NAME>>
    /\ lastRun.before.depth = <<"scene">> /\ lastRun.after.depth = <<"scene", NAME>>

\* C7: for every view of every frame, hex_grid runs after TONEMAPPING and
\* before END_MAIN_PASS_POST_PROCESSING.
C7_NodeOrder ==
    /\ NAME \in nodesRun => "TONEMAPPING" \in nodesRun
    /\ "END_MAIN_PASS_POST_PROCESSING" \in nodesRun => NAME \in nodesRun
    /\ (stage = "rendering" /\ nodesRun = {}) => NAME \in render_graph.nodes
C7_Witness ==
    /\ "END_MAIN_PASS_POST_PROCESSING" \in nodesRun /\ NAME \in nodesRun
    /\ viewIdx = NumViews

\* C8: for every MSAA setting of the view, the colour attachment of the pass
\* has the sample count of the pipeline set on it.
C8_SampleCountsMatch ==
    lastRun.invoked =>
        \A b \in Calls("begin_render_pass"), p \in Calls("set_render_pipeline") :
            lastRun.commands[b].arg.color_attachments[1].view.sample_count
                = lastRun.commands[p].arg.descriptor.multisample.count

\* C9: after handle_input ran in a frame where ResetCamera was just pressed,
\* ZeroCamera was not and Click is not held, yaw is 45 and pitch is -30.
HandledFrame == inputStage = "preupdate" /\ prevCamera.some
C9_ResetRestoresOrientation ==
    (/\ HandledFrame
     /\ just_pressed(actions, "ResetCamera")
     /\ ~just_pressed(actions, "ZeroCamera")
     /\ ~pressed(actions, "Click")) =>
        /\ camera.value.rig.yaw_degrees = 45
        /\ camera.value.rig.pitch_degrees = -30
        /\ camera.value.rig = SetupCamera.rig
C9_Witness ==
    /\ HandledFrame
    /\ just_pressed(actions, "ResetCamera")
    /\ ~just_pressed(actions, "ZeroCamera")
    /\ ~pressed(actions, "Click")
    /\ prevCamera.value.rig.yaw_degrees \notin {0, 45}
    /\ prevCamera.value.rig.pitch_degrees \notin {0, -30}

\* C10: handle_input leaves yaw and pitch alone in a frame where neither
\* ResetCamera nor ZeroCamera was just pressed and Click is not held, whatever
\* the mouse motion and wheel are, and never changes the Projection.
C10_OnlyBoundActionsMoveCamera ==
    HandledFrame =>
        /\ (/\ ~just_pressed(actions, "ResetCamera")
            /\ ~just_pressed(actions, "ZeroCamera")
            /\ ~pressed(actions, "Click")) => camera.value.rig = prevCamera.value.rig
        /\ camera.value.projection = prevCamera.value.projection
        /\ camera.value.projection = SetupCamera.projection
C10_Witness ==
    /\ HandledFrame
    /\ ~just_pressed(actions, "ResetCamera")
    /\ ~just_pressed(actions, "ZeroCamera")
    /\ ~pressed(actions, "Click")
    /\ actions.axis_pair.value # <<0, 0>>
    /\ actions.value # 0
    /\ camera.value.rig.yaw_degrees \notin {0, 45}

====
